---- MODULE Spec2Model ----
(***************************************************************************)
(* Model of src/commands/build.rs of cargo-vita: the `build` command that  *)
(* resolves the SDK root, runs cargo, extracts the executable artifacts    *)
(* from cargo's message stream and drives the chain of VitaSDK tools       *)
(* (strip, vita-elf-create, vita-make-fself, vita-mksfoex, vita-pack-vpk)  *)
(* over every artifact.                                                    *)
(*                                                                         *)
(* Strings and paths are sequences of string pieces, so that path          *)
(* operations (PathBuf::set_extension) are computed on the text: the path  *)
(* foo/bar.elf is <<"foo", "/", "bar", ".", "elf">>.  An Option<T> is a     *)
(* sequence of length at most one: None is <<>> and Some(x) is <<x>>.       *)
(***************************************************************************)
EXTENDS Integers, Sequences, FiniteSets, TLC

\* ------------------------------------------------------------------ bounds
\* Longest compiler message stream.
MaxEvents == 3
\* Most stage tools of one run that exit with a non-zero status.
MaxNonZero == 1
\* Longest path (in pieces) of the path-derivation specification.
MaxPathLen == 4
\* Most pass-through arguments of the compiler-invocation specification.
MaxArgs == 2
\* Process specification: most bytes cargo writes to its standard output.
MaxBytes == 3
\* Process specification: highest verbosity level.
MaxVerbose == 2
\* Process specification: most stage tools of a run.
MaxStages == 2
\* Process specification: most bytes a stage tool writes to its standard output.
MaxOutput == 3
\* Process specification: bytes a pipe holds before a write to it blocks.
PipeCapacity == 2

VARIABLES
    cmd,              \* self.cmd: the requested target
    default_title_id, \* args.default_title_id of the sfo and vpk targets
    envVITASDK,       \* std::env::var("VITASDK")
    process_env,      \* the rest of the process environment: CARGO, RUSTFLAGS, PATH
    cargo_args,       \* self.args: the trailing CARGO_ARGS
    meta,             \* execute's outer `meta`: parse_crate_metadata(None)
    sdk,              \* execute's `sdk`, None before it is resolved
    pc,               \* position of execute
    messages,         \* build_elf's `messages`, empty outside build_elf
    artifacts,        \* the Vec<Artifact> build_elf returned
    idx,              \* position of the `for artifact in ...` loop (1-based)
    art_meta,         \* the loop body's `meta`: parse_crate_metadata(Some(&artifact))
    pkg,              \* the loop body's `pkg`
    stage,            \* position in the loop body's chain of calls (1-based)
    log,              \* every Command spawned so far, in order
    resolved,         \* the metadata parse_crate_metadata returned for each artifact so far
    files,            \* the files the tools have written
    err,              \* the panic message of an aborted run
    path,             \* path-derivation specification: the executable path
    derived,          \* path-derivation specification: the derived stage paths
    asset_tree,       \* the file system under the asset directory
    add_args,         \* asset specification: the --add arguments of vita-pack-vpk
    verbose,          \* the verbosity level handed to execute
    source,           \* process specification: the bytes cargo writes to its stdout
    running,          \* process specification: the child processes that have not exited
    spawned,          \* process specification: how many children were spawned so far
    child_out,        \* process specification: what the child has yet to write to stdout
    pipe,             \* process specification: the bytes in the child's stdout pipe
    parser_view,      \* process specification: the bytes Message::parse_stream has read
    console           \* process specification: the bytes written to io::stdout()

vars == <<cmd, default_title_id, envVITASDK, process_env, cargo_args, meta, sdk, pc, messages, artifacts,
          idx, art_meta, pkg, stage, log, resolved, files, err, path, derived,
          asset_tree, add_args, verbose, source, running, spawned, child_out, pipe,
          parser_view, console>>

None == <<>>
Some(x) == <<x>>
IsSome(o) == Len(o) = 1
Unwrap(o) == o[1]

\* ------------------------------------------------------------ path algebra
\* Index of the last piece of s equal to c, 0 when there is none.
LastIndexOf(s, c) ==
    LET hits == {i \in 1..Len(s) : s[i] = c}
    IN  IF hits = {} THEN 0 ELSE CHOOSE i \in hits : \A j \in hits : j <= i

\* A path whose last component is a normal file name, as the `executable` of a
\* cargo artifact is: not empty, not ending in a separator, not `.` or `..`.
IsFilePath(p) ==
    LET name == SubSeq(p, LastIndexOf(p, "/") + 1, Len(p))
    IN  /\ name # <<>>
        /\ name # <<".">>
        /\ name # <<".", ".">>

\* Path::file_name of a file path: the last component.
file_name(p) == SubSeq(p, LastIndexOf(p, "/") + 1, Len(p))

\* Path::parent of a file path: everything before the last component.
parent(p) == SubSeq(p, 1, LastIndexOf(p, "/"))

\* Path::file_stem: the file name up to its last dot; the whole name when it
\* has no dot or its only dot is the first piece.
file_stem(p) ==
    LET name == file_name(p)
        dot  == LastIndexOf(name, ".")
    IN  IF dot <= 1 THEN name ELSE SubSeq(name, 1, dot - 1)

\* Path::extension: what follows the last dot of the file name, None when
\* file_stem is the whole name.
extension(p) ==
    LET name == file_name(p)
        dot  == LastIndexOf(name, ".")
    IN  IF dot <= 1 THEN None ELSE Some(SubSeq(name, dot + 1, Len(name)))

\* A set_extension that pushes the extension without truncating to the stem.
set_extension_append(p, ext) == p \o <<".">> \o ext

\* A set_extension that loses the directory of the path.
set_extension_nodir(p, ext) == file_stem(p) \o <<".">> \o ext

\* PathBuf::set_extension with a non-empty extension: truncate the path right
\* after the file stem, then push "." and the extension.
set_extension(p, ext) == parent(p) \o file_stem(p) \o <<".">> \o ext

\* ------------------------------------------------------------- input data
\* PackageMetadata as build.rs reads it: the fields the command uses.
MkMeta(v, hasSdk, hasId, hasName, hasAssets, hasFlags) ==
    [ vita_sdk              |-> IF hasSdk THEN Some(<<"/sdk-", v>>) ELSE None,
      build_std             |-> <<"std,panic_unwind">>,
      title_id              |-> IF hasId THEN Some(<<"ID-", v>>) ELSE None,
      title_name            |-> IF hasName THEN Some(<<"Title ", v>>) ELSE None,
      assets                |-> IF hasAssets THEN Some(<<"/", "assets-", v>>) ELSE None,
      vita_strip_flags      |-> IF hasFlags THEN << <<"-g">>, <<"--strip-", v>> >> ELSE <<>>,
      vita_make_fself_flags |-> IF hasFlags THEN << <<"-fself-", v>> >> ELSE <<>>,
      vita_mksfoex_flags    |-> IF hasFlags THEN << <<"-d">>, <<"ATTRIBUTE2=", v>> >> ELSE <<>> ]

\* What parse_crate_metadata(None) may return.
TopMetas ==
    { MkMeta("T", TRUE, TRUE, TRUE, TRUE, TRUE),
      MkMeta("T", FALSE, TRUE, TRUE, TRUE, TRUE) }

\* What parse_crate_metadata(Some(&artifact)) may return as metadata.
ArtifactMetas ==
    { MkMeta("A", TRUE, TRUE, TRUE, TRUE, TRUE),
      MkMeta("B", FALSE, FALSE, FALSE, FALSE, FALSE) }

\* Values of the VITASDK environment variable and of --default-title-id.
EnvSdks == { None, Some(<<"/env-sdk">>) }
DefaultTitleIds == { None, Some(<<"ID-", "default">>) }

Targets == { "elf", "velf", "eboot", "sfo", "vpk" }

\* An environment variable of the process: unset, or set to a value that is
\* valid Unicode or not.
Unset         == [set |-> FALSE, unicode |-> FALSE, value |-> <<>>]
Unicode(s)    == [set |-> TRUE, unicode |-> TRUE, value |-> s]
NotUnicode(s) == [set |-> TRUE, unicode |-> FALSE, value |-> s]

\* std::env::var(..).ok(): the value of a variable that is set and is valid
\* Unicode, None otherwise.
env_var(v) == IF v.set /\ v.unicode THEN Some(v.value) ELSE None

\* The environments of the compiler-invocation specification.
Envs ==
    [ CARGO     : { Unset, Unicode(<<"/opt/cargo">>) },
      RUSTFLAGS : { Unset, Unicode(<<"-C opt-level=3">>), NotUnicode(<<"-L /lib\\xff">>) },
      PATH      : { Unset, Unicode(<<"/usr/bin", ":", "/bin">>), NotUnicode(<<"/\\xff">>) } ]

\* The environment of the runs of the pipeline specification.
DefaultEnv ==
    [ CARGO |-> Unset, RUSTFLAGS |-> Unset, PATH |-> Unicode(<<"/usr/bin", ":", "/bin">>) ]

\* The trailing command-line arguments handed through to cargo.
PassThrough == { <<"--release">>, <<"--features">>, <<"a b">> }
CargoArgs == UNION { [1..n -> PassThrough] : n \in 0..MaxArgs }

\* cargo_metadata::Message, reduced to what build_elf looks at.
ExeEvent(p, g) == [reason |-> "compiler-artifact", executable |-> Some(p), package_id |-> g]
LibEvent(g)    == [reason |-> "compiler-artifact", executable |-> None, package_id |-> g]
\* Message::BuildFinished of a build that failed.
FinishedEvent  == [reason |-> "build-finished", executable |-> None, package_id |-> <<>>,
                   success |-> FALSE]

Events ==
    { ExeEvent(<<"d", "/", "x", ".", "elf">>, <<"pkg-1">>),
      ExeEvent(<<"d", "/", "x", ".", "bin">>, <<"pkg-1">>),
      ExeEvent(<<"c", "/", "x", ".", "elf">>, <<"pkg-2">>),
      LibEvent(<<"pkg-1">>),
      FinishedEvent }

\* The message streams: cargo reports every artifact once.
Streams ==
    { s \in UNION { [1..n -> Events] : n \in 0..MaxEvents } :
        \A i, j \in DOMAIN s : s[i] = s[j] => i = j }

\* cargo_metadata::Package of an artifact, reduced to its name.
PackageOf(artifact) == [name |-> artifact.package_id]

\* ------------------------------------------------------ artifact extraction
RECURSIVE Reverse(_)
Reverse(s) == IF s = <<>> THEN <<>> ELSE Append(Reverse(Tail(s)), Head(s))

RECURSIVE FilterMapExecutables(_)
FilterMapExecutables(s) ==
    IF s = <<>> THEN <<>>
    ELSE LET m == Head(s)
         IN  IF m.reason = "compiler-artifact" /\ IsSome(m.executable)
             THEN <<[executable |-> m.executable, package_id |-> m.package_id]>>
                      \o FilterMapExecutables(Tail(s))
             ELSE FilterMapExecutables(Tail(s))

\* An extraction that keeps the emission order.
extract_in_order(msgs) == FilterMapExecutables(msgs)

\* An extraction that gives nothing when the stream reports a failed build.
extract_unless_failed(msgs) ==
    IF \E i \in DOMAIN msgs : msgs[i].reason = "build-finished" /\ ~msgs[i].success
    THEN <<>>
    ELSE FilterMapExecutables(Reverse(msgs))

\* build_elf's result: messages.iter().rev().filter_map(..).collect()
extract(msgs) == FilterMapExecutables(Reverse(msgs))

\* ----------------------------------------------------------- SDK and chain
\* An SDK resolution that lets the environment win over the project config.
ResolveSdk_env_first(m, env) == IF IsSome(env) THEN env ELSE m.vita_sdk

\* execute's `sdk` before unwrap_or_else: meta.vita_sdk.or_else(|| env VITASDK).
ResolveSdk(m, env) == IF IsSome(m.vita_sdk) THEN m.vita_sdk ELSE env

\* A chain table whose vpk arm packs before the sfo is made.
Chain_vpk_before_sfo(c) ==
    CASE c = "elf"   -> <<>>
      [] c = "velf"  -> <<"strip", "velf">>
      [] c = "eboot" -> <<"strip", "velf", "eboot">>
      [] c = "sfo"   -> <<"sfo">>
      [] c = "vpk"   -> <<"strip", "velf", "eboot", "vpk", "sfo">>

\* A chain table whose vpk arm makes the sfo before anything else.
Chain_vpk_sfo_first(c) ==
    CASE c = "elf"   -> <<>>
      [] c = "velf"  -> <<"strip", "velf">>
      [] c = "eboot" -> <<"strip", "velf", "eboot">>
      [] c = "sfo"   -> <<"sfo">>
      [] c = "vpk"   -> <<"sfo", "strip", "velf", "eboot", "vpk">>

\* The calls of each arm of `match &self.cmd`, per artifact, in program order.
Chain(c) ==
    CASE c = "elf"   -> <<>>
      [] c = "velf"  -> <<"strip", "velf">>
      [] c = "eboot" -> <<"strip", "velf", "eboot">>
      [] c = "sfo"   -> <<"sfo">>
      [] c = "vpk"   -> <<"strip", "velf", "eboot", "sfo", "vpk">>

\* A package requirement put on every arm that runs a stage.
NeedsPackage_every_arm(c) == c \in {"velf", "eboot", "sfo", "vpk"}

\* The arms that bind `pkg` and call `pkg.expect(..)`.
NeedsPackage(c) == c \in {"sfo", "vpk"}

\* A status check that lets a failed spawn pass.
StatusIsErr_never(outcome) == FALSE

\* command.status() is Err, and `.expect(..)` panics, exactly when the program
\* could not be spawned; the ExitStatus of a spawned program is dropped.
StatusIsErr(outcome) == outcome = "spawn_failed"

\* The loop body's `meta` taken from the outer scope instead of the inner one.
ScopedMeta_outer == Unwrap(meta)

\* The `meta` the stage calls of the loop body see: the inner binding.
ScopedMeta == Unwrap(art_meta)

\* A title id that prefers the command-line default.
TitleIdOf_default_first(m, dflt) == IF IsSome(dflt) THEN dflt ELSE m.title_id

\* sfo's title id before `.expect`: meta.title_id.or(args.default_title_id).
TitleIdOf(m, dflt) == IF IsSome(m.title_id) THEN m.title_id ELSE dflt

\* sfo's title name: meta.title_name, else the package's name.
TitleNameOf(m, p) == IF IsSome(m.title_name) THEN Unwrap(m.title_name) ELSE p.name

\* A tool path under the SDK root of the artifact's own metadata, when it has one.
ToolPath_artifact_sdk(tool) ==
    (IF IsSome(ScopedMeta.vita_sdk) THEN Unwrap(ScopedMeta.vita_sdk) ELSE Unwrap(sdk))
        \o <<"/", "bin", "/", tool>>

\* sdk.join("bin").join(tool)
ToolPath(tool) == Unwrap(sdk) \o <<"/", "bin", "/", tool>>

NonZeroExits == Cardinality({i \in DOMAIN log : log[i].outcome = "exit_1"})

\* What spawning and waiting for a stage tool can give.
StageOutcomes ==
    {"spawn_failed", "exit_0"} \cup (IF NonZeroExits < MaxNonZero THEN {"exit_1"} ELSE {})

Invocation(tool, args, outcome) ==
    [tool |-> tool, program |-> ToolPath(tool), art |-> idx, args |-> args,
     outcome |-> outcome]

\* The file system under an asset directory: the directory itself (root), its
\* entries `a` and `c.png`, the entry `b.png` of `a`, and whether reading the
\* directory lists `a` before `c.png`.  An unreadable directory exists but
\* cannot be listed.
Trees ==
    { t \in [ root    : {"dir", "unreadable", "missing"},
              a       : {"absent", "file", "dir", "unreadable"},
              ab      : {"absent", "file", "dir", "symlink"},
              c       : {"absent", "file", "dir", "symlink"},
              a_first : BOOLEAN ] :
        /\ t.ab # "absent" => t.a \in {"dir", "unreadable"}
        /\ t.root = "missing" => (t.a = "absent" /\ t.c = "absent") }

\* An asset directory holding a/b.png and c.png.
DefaultTree ==
    [root |-> "dir", a |-> "dir", ab |-> "file", c |-> "file", a_first |-> TRUE]

\* The asset directories a package may configure.
AssetDirs == { None, Some(<<"/", "proj", "/", "static">>), Some(<<"static">>) }

\* An item of the WalkDir iterator: Ok(DirEntry) with its path and whether its
\* file type is a regular file, or Err.
WalkOk(p, kind) == [ok |-> TRUE, path |-> p, is_file |-> kind = "file"]
WalkErr         == [ok |-> FALSE, path |-> <<>>, is_file |-> FALSE]

\* WalkDir::new(root).into_iter() over the tree t: the root first, then its
\* entries depth first, symbolic links not followed; a directory that cannot
\* be read gives its own entry and then an error in place of its contents.
WalkDir(root, t) ==
    LET node(p, kind) == IF kind = "absent" THEN <<>> ELSE <<WalkOk(p, kind)>>
        listing(kind, inside) ==
            CASE kind = "dir"        -> inside
              [] kind = "unreadable" -> <<WalkErr>>
              [] OTHER               -> <<>>
        a_path  == root \o <<"/", "a">>
        in_a    == node(a_path \o <<"/", "b", ".", "png">>, t.ab)
        a_items == node(a_path, IF t.a = "unreadable" THEN "dir" ELSE t.a)
                       \o listing(t.a, in_a)
        c_items == node(root \o <<"/", "c", ".", "png">>, t.c)
        in_root == IF t.a_first THEN a_items \o c_items ELSE c_items \o a_items
    IN  IF t.root = "missing" THEN <<WalkErr>>
        ELSE <<WalkOk(root, "dir")>> \o listing(t.root, in_root)

\* Path::strip_prefix of a path below base: what follows base and the separator.
strip_prefix(p, base) == SubSeq(p, Len(base) + 2, Len(p))

\* The --add arguments of a sequence of directory entries under `assets`.
RECURSIVE AddArgsOf(_, _)
AddArgsOf(entries, assets) ==
    IF entries = <<>> THEN <<>>
    ELSE LET file == Head(entries)
         IN  << <<"--add">>,
                file.path \o <<"=">> \o strip_prefix(file.path, assets) >>
                 \o AddArgsOf(Tail(entries), assets)

\* --add arguments for every entry of the walk that could be read, whatever
\* its file type.
AddArgs_every_entry(assets) ==
    AddArgsOf(SelectSeq(WalkDir(assets, asset_tree), LAMBDA e : e.ok), assets)

\* vpk, lines 313-326: the walk over `assets`, errors dropped (e.ok()), regular
\* files only, each as --add <path>=<path below assets>.
AddArgs(assets) ==
    AddArgsOf(SelectSeq(WalkDir(assets, asset_tree), LAMBDA e : e.ok /\ e.is_file),
              assets)

\* The --add arguments of vpk for the metadata m: none without meta.assets.
AddArgsFor(m) == IF IsSome(m.assets) THEN AddArgs(Unwrap(m.assets)) ELSE <<>>

Executable == Unwrap(artifacts[idx].executable)

\* crate::meta::VITA_TARGET, the target triple.
VITA_TARGET == <<"armv7-sony-vita-newlibeabihf">>

\* The two mio --cfg flags build_elf appends, with their leading space.
MioFlags ==
    <<" --cfg mio_unsupported_force_poll_poll --cfg mio_unsupported_force_waker_pipe">>

\* A RUSTFLAGS that holds the mio flags alone.
rust_flags_overwrite(e) == MioFlags

\* build_elf's `rust_flags`: env::var("RUSTFLAGS").unwrap_or_default() + flags.
rust_flags(e) ==
    (IF IsSome(env_var(e.RUSTFLAGS)) THEN Unwrap(env_var(e.RUSTFLAGS)) ELSE <<>>)
        \o MioFlags

\* build_elf's `command` as it is spawned: the program, the variables set with
\* command.env (None: not set, the child inherits the driver's), the arguments.
command(m, sdk_root, a, e) ==
    [ program |-> IF IsSome(env_var(e.CARGO)) THEN Unwrap(env_var(e.CARGO))
                  ELSE <<"cargo">>,
      env     |-> [ PATH       |-> IF IsSome(env_var(e.PATH))
                                   THEN Some(sdk_root \o <<"/", "bin", ":">>
                                                 \o Unwrap(env_var(e.PATH)))
                                   ELSE None,
                    RUSTFLAGS  |-> Some(rust_flags(e)),
                    TARGET_CC  |-> Some(<<"arm-vita-eabi-gcc">>),
                    TARGET_CXX |-> Some(<<"arm-vita-eabi-g++">>),
                    VITASDK    |-> Some(sdk_root) ],
      args    |-> << <<"build">>, <<"-Z">>, <<"build-std=">> \o m.build_std,
                     <<"--target">>, VITA_TARGET,
                     <<"--message-format">>, <<"json-render-diagnostics">> >> \o a ]

\* An eboot input path that is the executable itself, its extension not set.
eboot_velf_unset(elf) == elf

\* eboot's local `velf`: the executable path with the extension set to velf.
eboot_velf(elf) == set_extension(elf, <<"velf">>)

\* No child process, nothing written or read.
IOIdle ==
    /\ verbose = 0
    /\ source = <<>>
    /\ running = {}
    /\ spawned = 0
    /\ child_out = <<>>
    /\ pipe = <<>>
    /\ parser_view = <<>>
    /\ console = <<>>

\* ------------------------------------------------------------------ state
Init ==
    /\ cmd \in Targets
    /\ default_title_id \in (IF cmd \in {"sfo", "vpk"} THEN DefaultTitleIds ELSE {None})
    /\ envVITASDK \in EnvSdks
    /\ process_env = DefaultEnv
    /\ cargo_args = <<>>
    /\ meta = None
    /\ sdk = None
    /\ pc = "execute"
    /\ messages = <<>>
    /\ artifacts = <<>>
    /\ idx = 1
    /\ art_meta = None
    /\ pkg = None
    /\ stage = 1
    /\ log = <<>>
    /\ resolved = <<>>
    /\ files = {}
    /\ err = None
    /\ path = <<>>
    /\ derived = None
    /\ asset_tree = DefaultTree
    /\ add_args = None
    /\ IOIdle

pathVars == <<path, derived>>
assetVars == <<add_args>>
ioVars == <<verbose, source, running, spawned, child_out, pipe, parser_view, console>>
auxVars == <<pathVars, assetVars, ioVars>>
inputVars == <<cmd, default_title_id, envVITASDK, process_env, cargo_args, asset_tree>>
\* The locals of execute and the record of what it has done.
runVars == <<meta, sdk, messages, artifacts, idx, art_meta, pkg, stage, log, resolved,
             files, err>>

\* execute, lines 56-67: the top-level metadata and the SDK root.
execute_resolve_sdk ==
    /\ pc = "execute"
    /\ \E m \in TopMetas :
          /\ meta' = Some(m)
          /\ sdk' = ResolveSdk(m, envVITASDK)
          /\ IF IsSome(ResolveSdk(m, envVITASDK))
             THEN pc' = "build_elf" /\ err' = err
             ELSE pc' = "panicked"
                  /\ err' = Some(<<"VITASDK environment variable isn't set.">>)
    /\ UNCHANGED <<inputVars, messages, artifacts, idx, art_meta, pkg, stage, log,
                   resolved, files, auxVars>>

\* build_elf, lines 114-149: build the cargo command and spawn it.
build_elf_spawn ==
    /\ pc = "build_elf"
    /\ \E outcome \in {"spawn_failed", "spawned"} :
          /\ LET c == command(Unwrap(meta), Unwrap(sdk), cargo_args, process_env)
             IN  log' = Append(log,
                          [tool |-> "cargo", program |-> c.program, art |-> 0,
                           args |-> c.args, env |-> c.env, outcome |-> outcome])
          /\ IF outcome = "spawn_failed"
             THEN pc' = "panicked" /\ err' = Some(<<"called Result::unwrap() on an Err value">>)
             ELSE pc' = "parse_stream" /\ err' = err
    /\ UNCHANGED <<inputVars, meta, sdk, messages, artifacts, idx, art_meta, pkg,
                   stage, resolved, files, auxVars>>

\* build_elf, lines 150-160: drain and parse cargo's stdout.
build_elf_parse ==
    /\ pc = "parse_stream"
    /\ \E stream \in Streams, parsed \in BOOLEAN :
          IF parsed
          THEN /\ messages' = stream
               /\ pc' = "extract"
               /\ err' = err
          ELSE /\ pc' = "panicked"
               /\ err' = Some(<<"called Result::unwrap() on an Err value">>)
               /\ UNCHANGED messages
    /\ UNCHANGED <<inputVars, meta, sdk, artifacts, idx, art_meta, pkg, stage, log,
                   resolved, files, auxVars>>

\* build_elf, lines 162-169: collect the artifacts out of the messages.
build_elf_extract ==
    /\ pc = "extract"
    /\ artifacts' = extract(messages)
    /\ pc' = "build_elf_return"
    /\ UNCHANGED <<inputVars, meta, sdk, messages, idx, art_meta, pkg, stage, log,
                   resolved, files, err, auxVars>>

\* build_elf returns, line 170: `messages` is dropped, and so is `process`,
\* which was never waited for; the arm of execute's match starts its loop over
\* the artifacts, or is over (elf).
build_elf_return ==
    /\ pc = "build_elf_return"
    /\ messages' = <<>>
    /\ pc' = IF cmd = "elf" THEN "done" ELSE "loop"
    /\ UNCHANGED <<inputVars, meta, sdk, artifacts, idx, art_meta, pkg, stage, log,
                   resolved, files, err, auxVars>>

\* The head of a loop iteration, lines 75, 83, 92-93, 100-101: re-resolve the
\* metadata with the artifact as context; the sfo and vpk arms need the package.
execute_next_artifact ==
    /\ pc = "loop"
    /\ idx <= Len(artifacts)
    /\ \E m \in ArtifactMetas, owner \in {None, Some(PackageOf(artifacts[idx]))} :
          /\ art_meta' = Some(m)
          /\ resolved' = Append(resolved, m)
          /\ IF NeedsPackage(cmd) /\ ~IsSome(owner)
             THEN /\ pc' = "panicked"
                  /\ err' = Some(<<"artifact does not have a package">>)
                  /\ pkg' = pkg
             ELSE /\ pc' = "chain"
                  /\ err' = err
                  /\ pkg' = IF NeedsPackage(cmd) THEN owner ELSE None
    /\ stage' = 1
    /\ UNCHANGED <<inputVars, meta, sdk, messages, artifacts, idx, log, files, auxVars>>

\* The loop is exhausted: execute returns.
execute_return ==
    /\ pc = "loop"
    /\ idx > Len(artifacts)
    /\ pc' = "done"
    /\ UNCHANGED <<inputVars, meta, sdk, messages, artifacts, idx, art_meta, pkg,
                   stage, log, resolved, files, err, auxVars>>

\* `command.status().expect(msg)` and the step to the next call of the chain,
\* or to the next iteration after the last call.
Return(outcome, msg) ==
    IF StatusIsErr(outcome)
    THEN /\ pc' = "panicked"
         /\ err' = Some(msg)
         /\ UNCHANGED <<idx, stage>>
    ELSE /\ err' = err
         /\ IF stage < Len(Chain(cmd))
            THEN stage' = stage + 1 /\ UNCHANGED <<pc, idx>>
            ELSE stage' = 1 /\ idx' = idx + 1 /\ pc' = "loop"

\* The command of a stage is spawned and waited for; a tool that exits with
\* status 0 has written its output file.
Run(tool, args, output, msg) ==
    \E outcome \in StageOutcomes :
       /\ log' = Append(log, Invocation(tool, args, outcome))
       /\ files' = IF outcome = "exit_0" THEN files \cup {output} ELSE files
       /\ Return(outcome, msg)

AtCall(f) == pc = "chain" /\ stage <= Len(Chain(cmd)) /\ Chain(cmd)[stage] = f

stageFrame == <<inputVars, meta, sdk, messages, artifacts, art_meta, pkg, resolved, auxVars>>

\* strip, lines 172-193.
strip ==
    /\ AtCall("strip")
    /\ Run("arm-vita-eabi-strip",
           ScopedMeta.vita_strip_flags \o <<Executable>>,
           Executable,
           <<"Artifact has no executables">>)
    /\ UNCHANGED stageFrame

\* velf, lines 195-218.
velf ==
    /\ AtCall("velf")
    /\ LET velf_path == set_extension(Executable, <<"velf">>)
       IN  Run("vita-elf-create",
               <<Executable, velf_path>>,
               velf_path,
               <<"vita-elf-create failed">>)
    /\ UNCHANGED stageFrame

\* eboot, lines 220-247.
eboot ==
    /\ AtCall("eboot")
    /\ LET velf_path  == eboot_velf(Executable)
           eboot_path == set_extension(Executable, <<"self">>)
       IN  Run("vita-make-fself",
               ScopedMeta.vita_make_fself_flags \o <<velf_path, eboot_path>>,
               eboot_path,
               <<"vita-make-fself failed">>)
    /\ UNCHANGED stageFrame

\* sfo, lines 249-291.
sfo ==
    /\ AtCall("sfo")
    /\ LET sfo_path   == set_extension(Executable, <<"sfo">>)
           title_name == TitleNameOf(ScopedMeta, Unwrap(pkg))
           title_id   == TitleIdOf(ScopedMeta, default_title_id)
       IN  IF IsSome(title_id)
           THEN Run("vita-mksfoex",
                    ScopedMeta.vita_mksfoex_flags
                        \o << <<"-s">>, <<"TITLE_ID=">> \o Unwrap(title_id),
                              title_name, sfo_path >>,
                    sfo_path,
                    <<"vita-mksfoex failed">>)
           ELSE /\ pc' = "panicked"
                /\ err' = Some(<<"title_id is not set for artifact ">> \o Unwrap(pkg).name)
                /\ UNCHANGED <<idx, stage, log, files>>
    /\ UNCHANGED stageFrame

\* vpk, lines 293-339.
vpk ==
    /\ AtCall("vpk")
    /\ LET eboot_path == set_extension(Executable, <<"self">>)
           vpk_path   == set_extension(Executable, <<"vpk">>)
           sfo_path   == set_extension(Executable, <<"sfo">>)
           add        == AddArgsFor(ScopedMeta)
       IN  Run("vita-pack-vpk",
               << <<"-s">>, sfo_path, <<"-b">>, eboot_path >> \o add \o <<vpk_path>>,
               vpk_path,
               <<"vita-mksfoex failed">>)
    /\ UNCHANGED stageFrame

Next ==
    \/ execute_resolve_sdk
    \/ build_elf_spawn
    \/ build_elf_parse
    \/ build_elf_extract
    \/ build_elf_return
    \/ execute_next_artifact
    \/ execute_return
    \/ strip
    \/ velf
    \/ eboot
    \/ sfo
    \/ vpk

Spec == Init /\ [][Next]_vars

\* --------------------------------------------- path-derivation specification
\* The stage paths of one executable path, over every short file path.
PathPieces == {"foo", "bar", ".", "/"}

FilePaths == { p \in UNION { [1..n -> PathPieces] : n \in 1..MaxPathLen } : IsFilePath(p) }

InitPath ==
    /\ path \in FilePaths
    /\ derived = None
    /\ cmd = "vpk"
    /\ default_title_id = None
    /\ envVITASDK = None
    /\ process_env = DefaultEnv
    /\ cargo_args = <<>>
    /\ meta = None
    /\ sdk = None
    /\ pc = "paths"
    /\ messages = <<>>
    /\ artifacts = <<>>
    /\ idx = 1
    /\ art_meta = None
    /\ pkg = None
    /\ stage = 1
    /\ log = <<>>
    /\ resolved = <<>>
    /\ files = {}
    /\ err = None
    /\ asset_tree = DefaultTree
    /\ add_args = None
    /\ IOIdle

\* The set_extension calls of velf, eboot, sfo and vpk on one executable path.
derive_paths ==
    /\ pc = "paths"
    /\ derived = None
    /\ derived' = Some([ velf |-> set_extension(path, <<"velf">>),
                         self |-> set_extension(path, <<"self">>),
                         sfo  |-> set_extension(path, <<"sfo">>),
                         vpk  |-> set_extension(path, <<"vpk">>) ])
    /\ UNCHANGED <<inputVars, meta, sdk, pc, messages, artifacts, idx, art_meta, pkg,
                   stage, log, resolved, files, err, path, assetVars, ioVars>>

NextPath == derive_paths

SpecPath == InitPath /\ [][NextPath]_vars

\* ------------------------------------------ compiler-invocation specification
\* The cargo command of build_elf over the environments and the pass-through
\* arguments: execute up to the spawn of cargo.
InitCargo ==
    /\ cmd = "elf"
    /\ default_title_id = None
    /\ envVITASDK \in EnvSdks
    /\ process_env \in Envs
    /\ cargo_args \in CargoArgs
    /\ meta = None
    /\ sdk = None
    /\ pc = "execute"
    /\ messages = <<>>
    /\ artifacts = <<>>
    /\ idx = 1
    /\ art_meta = None
    /\ pkg = None
    /\ stage = 1
    /\ log = <<>>
    /\ resolved = <<>>
    /\ files = {}
    /\ err = None
    /\ path = <<>>
    /\ derived = None
    /\ asset_tree = DefaultTree
    /\ add_args = None
    /\ IOIdle

NextCargo == execute_resolve_sdk \/ build_elf_spawn

SpecCargo == InitCargo /\ [][NextCargo]_vars

\* -------------------------------------------------- asset specification
\* The asset arguments of vpk over the asset directories and the trees below
\* them.
InitAssets ==
    /\ cmd = "vpk"
    /\ default_title_id = None
    /\ envVITASDK = None
    /\ process_env = DefaultEnv
    /\ cargo_args = <<>>
    /\ asset_tree \in Trees
    /\ meta = None
    /\ sdk = None
    /\ pc = "assets"
    /\ messages = <<>>
    /\ artifacts = <<>>
    /\ idx = 1
    /\ \E dir \in AssetDirs :
          art_meta = Some([MkMeta("A", TRUE, TRUE, TRUE, TRUE, TRUE) EXCEPT !.assets = dir])
    /\ pkg = None
    /\ stage = 1
    /\ log = <<>>
    /\ resolved = <<>>
    /\ files = {}
    /\ err = None
    /\ path = <<>>
    /\ derived = None
    /\ add_args = None
    /\ IOIdle

\* The `if let Some(assets) = &meta.assets { .. }` block of vpk.
vpk_add_assets ==
    /\ pc = "assets"
    /\ add_args' = Some(AddArgsFor(ScopedMeta))
    /\ pc' = "assets_done"
    /\ UNCHANGED <<inputVars, runVars, pathVars, ioVars>>

NextAssets == vpk_add_assets

SpecAssets == InitAssets /\ [][NextAssets]_vars

\* ------------------------------------------------- process specification
\* The child processes of a run and the bytes on their standard output: cargo,
\* whose stdout pipe build_elf reads to its end, and the stage tools, each run
\* with `command.status()` on a command whose stdout is Stdio::piped().
Bytes == {10, 123}

\* What cargo may write to its standard output.
Sources == UNION { [1..n -> Bytes] : n \in 0..MaxBytes }

\* What a stage tool may write to its standard output.
ToolOutputs == { [k \in 1..n |-> 46] : n \in 0..MaxOutput }

\* A reader that duplicates from verbosity 1 on.
UsesTee_from_1(v) == v > 0

\* build_elf's choice of reader: `if verbose > 1` the TeeReader onto io::stdout().
UsesTee(v) == v > 1

\* A status() that returns without waiting for the child to exit.
StatusReturns_at_once == TRUE

\* The wait of command.status() returns when the child has exited.
StatusReturns == running = {}

InitIO ==
    /\ cmd = "vpk"
    /\ default_title_id = None
    /\ envVITASDK = None
    /\ process_env = DefaultEnv
    /\ cargo_args = <<>>
    /\ asset_tree = DefaultTree
    /\ meta = None
    /\ sdk = None
    /\ pc = "spawn"
    /\ messages = <<>>
    /\ artifacts = <<>>
    /\ idx = 1
    /\ art_meta = None
    /\ pkg = None
    /\ stage = 1
    /\ log = <<>>
    /\ resolved = <<>>
    /\ files = {}
    /\ err = None
    /\ path = <<>>
    /\ derived = None
    /\ add_args = None
    /\ verbose \in 0..MaxVerbose
    /\ source \in Sources
    /\ running = {}
    /\ spawned = 0
    /\ child_out = <<>>
    /\ pipe = <<>>
    /\ parser_view = <<>>
    /\ console = <<>>

ioFrame == <<inputVars, meta, sdk, messages, artifacts, idx, art_meta, pkg, stage, log,
             resolved, files, pathVars, assetVars>>

\* build_elf, line 149: command.spawn().unwrap() of cargo, stdout piped.
io_spawn_cargo ==
    /\ pc = "spawn"
    /\ \E ok \in BOOLEAN :
          IF ok
          THEN /\ running' = {spawned + 1}
               /\ spawned' = spawned + 1
               /\ child_out' = source
               /\ pc' = "read"
               /\ err' = err
          ELSE /\ pc' = "panicked"
               /\ err' = Some(<<"called Result::unwrap() on an Err value">>)
               /\ UNCHANGED <<running, spawned, child_out>>
    /\ UNCHANGED <<ioFrame, verbose, source, pipe, parser_view, console>>

\* The running child writes one more byte to its stdout; the write blocks
\* while the pipe is full.
child_write ==
    /\ running # {}
    /\ child_out # <<>>
    /\ Len(pipe) < PipeCapacity
    /\ pipe' = Append(pipe, Head(child_out))
    /\ child_out' = Tail(child_out)
    /\ UNCHANGED <<ioFrame, pc, err, verbose, source, running, spawned, parser_view,
                   console>>

\* The running child has written all it had to and exits, which closes its
\* end of the pipe.
child_exit ==
    /\ running # {}
    /\ child_out = <<>>
    /\ running' = {}
    /\ UNCHANGED <<ioFrame, pc, err, verbose, source, spawned, child_out, pipe,
                   parser_view, console>>

\* build_elf, lines 152-160: one read of the parser's BufReader from cargo's
\* pipe; through the TeeReader what was read is first written to io::stdout().
io_read ==
    /\ pc = "read"
    /\ pipe # <<>>
    /\ \E n \in 1..Len(pipe) :
          LET chunk == SubSeq(pipe, 1, n)
          IN  /\ pipe' = SubSeq(pipe, n + 1, Len(pipe))
              /\ parser_view' = parser_view \o chunk
              /\ console' = IF UsesTee(verbose) THEN console \o chunk ELSE console
    /\ UNCHANGED <<ioFrame, pc, err, verbose, source, running, spawned, child_out>>

\* build_elf, lines 158-160: the read at the end of the stream; the collect is
\* over and the stage calls follow.
io_read_eof ==
    /\ pc = "read"
    /\ pipe = <<>>
    /\ running = {}
    /\ pc' = "stages"
    /\ UNCHANGED <<ioFrame, err, ioVars>>

\* build_elf, lines 158-160: an item of the stream is Err and unwrap panics: a
\* read of the pipe or the parse of a line failed, or, through the TeeReader,
\* the write of a chunk to io::stdout() failed after part of it.
io_read_error ==
    /\ pc = "read"
    /\ pc' = "panicked"
    /\ err' = Some(<<"called Result::unwrap() on an Err value">>)
    /\ \/ UNCHANGED <<pipe, console>>
       \/ /\ UsesTee(verbose)
          /\ pipe # <<>>
          /\ \E n \in 1..Len(pipe), k \in 0..(Len(pipe) - 1) :
                /\ k < n
                /\ pipe' = SubSeq(pipe, n + 1, Len(pipe))
                /\ console' = console \o SubSeq(pipe, 1, k)
    /\ UNCHANGED <<ioFrame, verbose, source, running, spawned, child_out, parser_view>>

\* A stage function, e.g. strip, lines 176-192: command.status() spawns the
\* tool with a fresh stdout pipe that nobody reads.
io_stage_spawn ==
    /\ pc = "stages"
    /\ spawned <= MaxStages
    /\ \E ok \in BOOLEAN, out \in ToolOutputs :
          IF ok
          THEN /\ running' = running \cup {spawned + 1}
               /\ spawned' = spawned + 1
               /\ child_out' = out
               /\ pipe' = <<>>
               /\ pc' = "wait"
               /\ err' = err
          ELSE /\ pc' = "panicked"
               /\ err' = Some(<<"Artifact has no executables">>)
               /\ UNCHANGED <<running, spawned, child_out, pipe>>
    /\ UNCHANGED <<ioFrame, verbose, source, parser_view, console>>

\* command.status() returns the exit status; the Child and its pipe are dropped.
io_stage_wait ==
    /\ pc = "wait"
    /\ StatusReturns
    /\ pipe' = <<>>
    /\ pc' = "stages"
    /\ UNCHANGED <<ioFrame, err, verbose, source, running, spawned, child_out,
                   parser_view, console>>

\* No stage call is left: execute returns.
io_return ==
    /\ pc = "stages"
    /\ pc' = "done"
    /\ UNCHANGED <<ioFrame, err, ioVars>>

NextIO ==
    \/ io_spawn_cargo
    \/ child_write
    \/ child_exit
    \/ io_read
    \/ io_read_eof
    \/ io_read_error
    \/ io_stage_spawn
    \/ io_stage_wait
    \/ io_return

SpecIO == InitIO /\ [][NextIO]_vars

\* ------------------------------------------------------- reading the log
IsPrefix(s, t) == Len(s) <= Len(t) /\ s = SubSeq(t, 1, Len(s))

LogOf(i) == SelectSeq(log, LAMBDA e : e.art = i)

\* The tools invoked for the i-th extracted artifact, in invocation order.
ToolsOf(i) ==
    LET entries == LogOf(i)
    IN  [k \in 1..Len(entries) |-> entries[k].tool]

StageEntries == {k \in DOMAIN log : log[k].art > 0}

LastArg(e) == e.args[Len(e.args)]

\* The files a stage invocation reads and writes among its path arguments, by
\* the argument contract of the tool.
Reads(e) ==
    CASE e.tool = "arm-vita-eabi-strip" -> {LastArg(e)}
      [] e.tool = "vita-elf-create"     -> {e.args[1]}
      [] e.tool = "vita-make-fself"     -> {e.args[Len(e.args) - 1]}
      [] e.tool = "vita-mksfoex"        -> {}
      [] e.tool = "vita-pack-vpk"       -> {e.args[2], e.args[4]}
      [] OTHER                          -> {}

Writes(e) == IF e.tool = "cargo" THEN {} ELSE {LastArg(e)}

\* The entries of the i-th artifact whose tool ran to a zero exit status, and so
\* has read its inputs and written its output (as in Run).
RanFor(i) == {n \in DOMAIN log : log[n].art = i /\ log[n].outcome = "exit_0"}

WrittenBy(i) == UNION {Writes(log[k]) : k \in RanFor(i)}
TouchedBy(i) == UNION {Reads(log[k]) \cup Writes(log[k]) : k \in RanFor(i)}

\* ------------------------------------------------------------------ claims
\* The stage table of the claim C1, by tool.
C1_Table(c) ==
    CASE c = "elf"   -> <<>>
      [] c = "velf"  -> <<"arm-vita-eabi-strip", "vita-elf-create">>
      [] c = "eboot" -> <<"arm-vita-eabi-strip", "vita-elf-create", "vita-make-fself">>
      [] c = "sfo"   -> <<"vita-mksfoex">>
      [] c = "vpk"   -> <<"arm-vita-eabi-strip", "vita-elf-create", "vita-make-fself",
                          "vita-mksfoex", "vita-pack-vpk">>

\* C1: for every target and every extracted artifact, the stage tools invoked
\* for the artifact are, at every moment, a prefix of the target's row of the
\* stage table (so each at most once, in the table's order, and no others),
\* and once the artifact's iteration is over, or execute has returned, they
\* are exactly that row.  Only the compiler is invoked for no artifact.
C1_ChainPerTarget ==
    /\ \A k \in DOMAIN log :
          /\ log[k].art \in 0..Len(artifacts)
          /\ log[k].art = 0 <=> log[k].tool = "cargo"
    /\ \A i \in 1..Len(artifacts) :
          LET tools == ToolsOf(i)
          IN  /\ IsPrefix(tools, C1_Table(cmd))
              /\ (pc = "done" \/ (pc \in {"loop", "chain"} /\ i < idx))
                    => tools = C1_Table(cmd)

\* C1 witness: a vpk run over two artifacts has returned.
C1_Witness ==
    /\ pc = "done"
    /\ cmd = "vpk"
    /\ Len(artifacts) = 2
    /\ ToolsOf(2) = C1_Table("vpk")

\* C2 as claimed: after a stage tool exits non-zero, no later stage is invoked
\* for the same artifact.
C2_ShortCircuitOnNonZero ==
    \A k, l \in StageEntries :
        (k < l /\ log[k].outcome = "exit_1") => log[l].art # log[k].art

\* C3 as claimed: after a stage tool exits non-zero, no stage tool is invoked
\* for a later artifact and the run does not end successfully.
C3_NoLaterArtifactAfterNonZero ==
    /\ \A k, l \in StageEntries :
          (k < l /\ log[k].outcome = "exit_1") => log[l].art <= log[k].art
    /\ pc = "done" => \A k \in StageEntries : log[k].outcome # "exit_1"

\* A program that could not be spawned is the last one of the run, and the run
\* has aborted.
C4_SpawnFailureIsLast ==
    \A k \in DOMAIN log :
        log[k].outcome = "spawn_failed" => (k = Len(log) /\ pc = "panicked")

\* C4: a spawn failure of the compiler or of a stage tool aborts the run at
\* that point: the program that failed to spawn is the last one invoked (not
\* invoked again, none invoked after it), an aborted run invokes nothing
\* more and stays aborted, and no step removes a file a tool has written.
C4_SpawnFailureFatal ==
    /\ []C4_SpawnFailureIsLast
    /\ [][ /\ files \subseteq files'
           /\ pc = "panicked" => (pc' = "panicked" /\ log' = log) ]_vars

\* C4 witness: a stage tool failed to spawn after an earlier stage of the run
\* had written its file.
C4_Witness ==
    /\ pc = "panicked"
    /\ Len(log) >= 3
    /\ log[Len(log)].outcome = "spawn_failed"
    /\ log[Len(log)].art > 0
    /\ files # {}

\* The positions of the executable-bearing compiler-artifact messages.
C5_ExeIdx ==
    {i \in DOMAIN messages :
        messages[i].reason = "compiler-artifact" /\ messages[i].executable # None}

\* C5: when build_elf returns, its result is exactly the compiler-artifact
\* messages with an executable, one each, the one emitted last first; the
\* stage tools are invoked artifact after artifact in the order of that
\* result, each chain on its artifact's executable.
C5_ExtractReverse ==
    /\ pc = "build_elf_return" =>
          /\ Len(artifacts) = Cardinality(C5_ExeIdx)
          /\ \A k \in C5_ExeIdx :
                LET j == Cardinality({i \in C5_ExeIdx : i >= k})
                IN  /\ artifacts[j].executable = messages[k].executable
                    /\ artifacts[j].package_id = messages[k].package_id
    /\ \A k \in 1..(Len(log) - 1) : log[k].art <= log[k + 1].art
    /\ \A k \in StageEntries :
          log[k].tool = "arm-vita-eabi-strip"
              => LastArg(log[k]) = Unwrap(artifacts[log[k].art].executable)

\* C5 witness: build_elf returns for a stream of an executable, a library
\* artifact and a second executable: the second executable comes first.
C5_Witness ==
    /\ pc = "build_elf_return"
    /\ Len(messages) = 3
    /\ C5_ExeIdx = {1, 3}
    /\ messages[2].reason = "compiler-artifact"
    /\ Len(artifacts) = 2
    /\ artifacts[1].executable = messages[3].executable
    /\ artifacts[2].executable = messages[1].executable

\* The title id the claim C6 expects for the i-th artifact, an Option.
C6_Expected(i) ==
    IF resolved[i].title_id # None THEN resolved[i].title_id ELSE default_title_id

\* C6: every vita-mksfoex invocation passes TITLE_ID=<the artifact's metadata
\* title id when present, else --default-title-id>; when neither is present
\* the sfo call aborts with an error naming the artifact's package, without
\* invoking vita-mksfoex, and no later stage is invoked for the artifact.
C6_TitleIdResolution ==
    /\ [](\A k \in StageEntries :
            LET e == log[k]
            IN  /\ e.tool = "vita-mksfoex" =>
                      /\ C6_Expected(e.art) # None
                      /\ e.args[Len(e.args) - 2]
                            = <<"TITLE_ID=">> \o Unwrap(C6_Expected(e.art))
                /\ e.tool = "vita-pack-vpk" => C6_Expected(e.art) # None)
    /\ [][ (/\ pc = "chain"
            /\ Chain(cmd)[stage] = "sfo"
            /\ C6_Expected(idx) = None)
               => /\ pc' = "panicked"
                  /\ log' = log
                  /\ err' = Some(<<"title_id is not set for artifact ">>
                                     \o artifacts[idx].package_id) ]_vars

\* C6 witness: vita-mksfoex was invoked for an artifact whose metadata has a
\* title id while --default-title-id was given too.
C6_Witness ==
    /\ default_title_id # None
    /\ \E k \in StageEntries :
          /\ log[k].tool = "vita-mksfoex"
          /\ resolved[log[k].art].title_id # None

\* The SDK root the claim C7 expects, an Option.
C7_Expected ==
    IF Unwrap(meta).vita_sdk # None THEN Unwrap(meta).vita_sdk ELSE envVITASDK

C8_Kinds == {"velf", "self", "sfo", "vpk"}

\* C8: the four stage paths derived from an executable path have the parent
\* directory and the file stem of the executable, and the stage's extension;
\* foo/bar gives foo/bar.velf, foo/bar.self, foo/bar.sfo and foo/bar.vpk.
C8_DerivedPaths ==
    derived # None =>
        LET d == Unwrap(derived)
        IN  /\ \A k \in C8_Kinds :
                  /\ parent(d[k]) = parent(path)
                  /\ file_stem(d[k]) = file_stem(path)
                  /\ extension(d[k]) = Some(<<k>>)
            /\ path = <<"foo", "/", "bar">> =>
                  /\ d.velf = <<"foo", "/", "bar", ".", "velf">>
                  /\ d.self = <<"foo", "/", "bar", ".", "self">>
                  /\ d.sfo  = <<"foo", "/", "bar", ".", "sfo">>
                  /\ d.vpk  = <<"foo", "/", "bar", ".", "vpk">>

\* C8 witness: the paths of foo/bar have been derived.
C8_Witness == derived # None /\ path = <<"foo", "/", "bar">>

C9_SameBase(p, q) == parent(p) = parent(q) /\ file_stem(p) = file_stem(q)

C10_PerArtifactMeta ==
    /\ Len(resolved) <= Len(artifacts)
    /\ pc \in {"loop", "done"} => Len(resolved) = idx - 1
    /\ pc = "chain" => Len(resolved) = idx
    /\ \A k \in StageEntries :
          LET e == log[k]
              n == Len(e.args)
          IN  /\ e.art <= Len(resolved)
              /\ LET m   == resolved[e.art]
                     exe == Unwrap(artifacts[e.art].executable)
                 IN  /\ e.tool = "arm-vita-eabi-strip" =>
                            e.args = m.vita_strip_flags \o <<exe>>
                     /\ e.tool = "vita-make-fself" =>
                            SubSeq(e.args, 1, n - 2) = m.vita_make_fself_flags
                     /\ e.tool = "vita-mksfoex" =>
                            /\ SubSeq(e.args, 1, n - 4) = m.vita_mksfoex_flags
                            /\ m.title_id # None =>
                                  e.args[n - 2] = <<"TITLE_ID=">> \o Unwrap(m.title_id)
                            /\ e.args[n - 1] =
                                  IF m.title_name # None THEN Unwrap(m.title_name)
                                  ELSE artifacts[e.art].package_id
                     /\ e.tool = "vita-pack-vpk" =>
                            IF m.assets # None
                            THEN /\ n = 9
                                 /\ \A a \in {6, 8} :
                                       IsPrefix(Unwrap(m.assets), e.args[a])
                            ELSE n = 5

\* C10 witness: a vpk run over two artifacts with different resolved metadata,
\* both different from the top-level metadata, has returned.
C10_Witness ==
    /\ pc = "done"
    /\ cmd = "vpk"
    /\ Len(resolved) = 2
    /\ resolved[1] # resolved[2]
    /\ resolved[1] # Unwrap(meta)
    /\ resolved[2] # Unwrap(meta)
    /\ Len(log) = 11

\* C15: within one artifact, vita-elf-create reads the executable path that an
\* earlier arm-vita-eabi-strip invocation rewrote, vita-make-fself reads the
\* output path of an earlier vita-elf-create invocation, and vita-pack-vpk
\* takes as -b the output path of an earlier vita-make-fself invocation and
\* as -s the output path of an earlier vita-mksfoex invocation: every stage
\* whose output is consumed was invoked earlier for the same artifact.
C15_PathChaining ==
    \A i \in 1..Len(artifacts) :
        LET es == LogOf(i)
            Produced(k, tool, p) ==
                \E j \in 1..(k - 1) : es[j].tool = tool /\ LastArg(es[j]) = p
        IN  \A k \in DOMAIN es :
               LET e == es[k]
                   n == Len(e.args)
               IN  /\ e.tool = "vita-elf-create" =>
                          Produced(k, "arm-vita-eabi-strip", e.args[1])
                   /\ e.tool = "vita-make-fself" =>
                          Produced(k, "vita-elf-create", e.args[n - 1])
                   /\ e.tool = "vita-pack-vpk" =>
                          /\ e.args[1] = <<"-s">> /\ e.args[3] = <<"-b">>
                          /\ Produced(k, "vita-mksfoex", e.args[2])
                          /\ Produced(k, "vita-make-fself", e.args[4])

\* C15 witness: vita-pack-vpk has been invoked for the second artifact of a
\* run, after the four stages it follows.
C15_Witness ==
    /\ cmd = "vpk"
    /\ Len(log) = 11
    /\ log[11].tool = "vita-pack-vpk"
    /\ log[11].art = 2

\* C17: under the sfo and vpk targets an artifact for which the metadata
\* resolution gives no owning package aborts the run with no stage tool
\* invoked for that artifact (not even strip), and a chain starts only with
\* the owning package in hand; under the velf and eboot targets every
\* iteration starts its chain, whether or not there is an owning package.
C17_PackageRequirement ==
    /\ []((pc = "panicked" /\ err = Some(<<"artifact does not have a package">>))
            => /\ cmd \in {"sfo", "vpk"}
               /\ idx <= Len(artifacts)
               /\ LogOf(idx) = <<>>)
    /\ [][ (pc = "loop" /\ idx <= Len(artifacts)) =>
              IF cmd \in {"velf", "eboot"}
              THEN pc' = "chain" /\ err' = err /\ log' = log
              ELSE /\ pc' \in {"chain", "panicked"}
                   /\ log' = log
                   /\ pc' = "chain" => pkg' = Some(PackageOf(artifacts[idx])) ]_vars

\* C17 witness: a vpk run aborted for want of the second artifact's package,
\* after the complete chain of the first artifact.
C17_Witness ==
    /\ cmd = "vpk"
    /\ pc = "panicked"
    /\ err = Some(<<"artifact does not have a package">>)
    /\ idx = 2
    /\ Len(LogOf(1)) = 5
    /\ LogOf(2) = <<>>

\* The run has aborted because sfo found no title id.
C19_TitleIdAbort ==
    /\ pc = "panicked"
    /\ err # None
    /\ IsPrefix(<<"title_id is not set for artifact ">>, Unwrap(err))

\* C19: under the vpk target a missing title id (none in the artifact's
\* metadata, no --default-title-id) aborts the run only at the sfo call: at
\* that moment arm-vita-eabi-strip, vita-elf-create and vita-make-fself have
\* been invoked for the artifact, in this order, vita-mksfoex and
\* vita-pack-vpk have not, and all five tools have been invoked for every
\* earlier artifact; before the sfo call the missing title id aborts nothing.
C19_TitleIdDetectedAtSfo ==
    /\ [](cmd = "vpk" /\ C19_TitleIdAbort =>
            /\ C6_Expected(idx) = None
            /\ ToolsOf(idx) = SubSeq(C1_Table("vpk"), 1, 3)
            /\ \A i \in 1..(idx - 1) : ToolsOf(i) = C1_Table("vpk"))
    /\ [][ (cmd = "vpk" /\ pc = "chain" /\ stage < 4 /\ C6_Expected(idx) = None)
              => ~C19_TitleIdAbort' ]_vars

\* C19 witness: a vpk run aborted at the sfo call of its second artifact;
\* the stripped executable and the velf and self files of that artifact exist.
C19_Witness ==
    /\ cmd = "vpk"
    /\ C19_TitleIdAbort
    /\ idx = 2
    /\ Len(log) = 9
    /\ \A k \in 7..9 : log[k].outcome = "exit_0"

\* The cargo invocation of the run.
C16_Cargo == log[1]

\* <sdk>/bin and the separator, as the head of a PATH.
C16_SdkBin == Unwrap(sdk) \o <<"/", "bin", ":">>

\* The fixed arguments of the claim C16.
C16_Fixed ==
    << <<"build">>, <<"-Z">>, <<"build-std=">> \o Unwrap(meta).build_std,
       <<"--target">>, VITA_TARGET,
       <<"--message-format">>, <<"json-render-diagnostics">> >>

\* The PATH the compiler runs with: the one set on the command, else the one
\* it inherits from the driver.
C16_EffectivePATH ==
    IF C16_Cargo.env.PATH # None THEN C16_Cargo.env.PATH
    ELSE IF process_env.PATH.set THEN Some(process_env.PATH.value) ELSE None

\* C16 as claimed: in every run the compiler's PATH is <sdk>/bin followed by
\* the pre-existing PATH, its RUSTFLAGS is the externally set RUSTFLAGS
\* followed by the two mio flags, TARGET_CC, TARGET_CXX and VITASDK are set,
\* and its arguments are the fixed ones followed by the pass-through ones.
C16_EnvAndArgsAlways ==
    log # <<>> =>
        /\ C16_EffectivePATH = Some(C16_SdkBin \o process_env.PATH.value)
        /\ C16_Cargo.env.RUSTFLAGS = Some(process_env.RUSTFLAGS.value \o MioFlags)
        /\ C16_Cargo.env.TARGET_CC # None
        /\ C16_Cargo.env.TARGET_CXX # None
        /\ C16_Cargo.env.VITASDK # None
        /\ C16_Cargo.args = C16_Fixed \o cargo_args

\* C16 amended: when PATH is set to valid Unicode the compiler's PATH is
\* <sdk>/bin followed by that PATH, otherwise the command sets no PATH and the
\* compiler runs with the driver's; RUSTFLAGS is the external RUSTFLAGS when
\* that is set to valid Unicode, else empty, followed by the two mio flags;
\* TARGET_CC, TARGET_CXX and VITASDK (the resolved SDK root) are set; the
\* arguments are the fixed ones followed by the pass-through ones, verbatim.
C16_EnvAndArgs ==
    log # <<>> =>
        /\ IF process_env.PATH.set /\ process_env.PATH.unicode
           THEN C16_Cargo.env.PATH = Some(C16_SdkBin \o process_env.PATH.value)
           ELSE C16_Cargo.env.PATH = None
        /\ C16_Cargo.env.RUSTFLAGS =
              Some((IF process_env.RUSTFLAGS.set /\ process_env.RUSTFLAGS.unicode
                    THEN process_env.RUSTFLAGS.value ELSE <<>>) \o MioFlags)
        /\ C16_Cargo.env.TARGET_CC = Some(<<"arm-vita-eabi-gcc">>)
        /\ C16_Cargo.env.TARGET_CXX = Some(<<"arm-vita-eabi-g++">>)
        /\ C16_Cargo.env.VITASDK = sdk
        /\ SubSeq(C16_Cargo.args, 1, 7) = C16_Fixed
        /\ SubSeq(C16_Cargo.args, 8, Len(C16_Cargo.args)) = cargo_args

\* C16 witness: cargo was spawned with PATH and RUSTFLAGS set outside and the
\* same pass-through argument given twice.
C16_Witness ==
    /\ log # <<>>
    /\ C16_Cargo.outcome = "spawned"
    /\ process_env.PATH = Unicode(<<"/usr/bin", ":", "/bin">>)
    /\ process_env.RUSTFLAGS = Unicode(<<"-C opt-level=3">>)
    /\ cargo_args = << <<"--release">>, <<"--release">> >>

\* C20: the SDK root is resolved once, from the metadata resolved without an
\* artifact and the VITASDK variable, and no later step changes it or that
\* metadata; the compiler gets it as VITASDK and every stage tool of every
\* artifact is launched from its bin directory, whatever SDK root the
\* metadata resolved for the artifact carries.
C20_SdkResolvedOnce ==
    /\ [](sdk # None =>
            /\ sdk \in {Unwrap(meta).vita_sdk, envVITASDK}
            /\ \A k \in DOMAIN log :
                  IF log[k].art = 0
                  THEN log[k].env.VITASDK = sdk
                  ELSE log[k].program = Unwrap(sdk) \o <<"/", "bin", "/", log[k].tool>>)
    /\ [][ pc # "execute" => (sdk' = sdk /\ meta' = meta) ]_vars

\* C20 witness: a stage tool has been invoked for an artifact whose own
\* metadata carries an SDK root other than the resolved one.
C20_Witness ==
    /\ sdk # None
    /\ \E k \in StageEntries :
          /\ resolved[log[k].art].vita_sdk # None
          /\ resolved[log[k].art].vita_sdk # sdk

\* The stream build_elf has read reports a failed build.
C18_BuildFailed ==
    \E i \in DOMAIN messages :
        messages[i].reason = "build-finished" /\ ~messages[i].success

C12_RegularFiles(t) ==
    IF t.root = "missing" THEN {}
    ELSE (IF t.a = "file" THEN {<<"a">>} ELSE {})
         \cup (IF t.ab = "file" THEN {<<"a", "/", "b", ".", "png">>} ELSE {})
         \cup (IF t.c = "file" THEN {<<"c", ".", "png">>} ELSE {})

\* Those of them that a walk from the root can reach: every directory above
\* them can be listed.
C12_ReadableFiles(t) ==
    IF t.root # "dir" THEN {}
    ELSE (IF t.a = "file" THEN {<<"a">>} ELSE {})
         \cup (IF t.ab = "file" /\ t.a = "dir"
               THEN {<<"a", "/", "b", ".", "png">>} ELSE {})
         \cup (IF t.c = "file" THEN {<<"c", ".", "png">>} ELSE {})

\* The absolute path of a directory given absolute or relative to the working
\* directory.
C12_Absolute(dir) == IF dir[1] = "/" THEN dir ELSE <<"/", "cwd", "/">> \o dir

\* The arguments are one `--add <dir>/<f>=<f>` pair for each f of F, and
\* nothing else.
C12_OnePairEach(arguments, dir, F) ==
    /\ Len(arguments) = 2 * Cardinality(F)
    /\ \A k \in DOMAIN arguments : k % 2 = 1 => arguments[k] = <<"--add">>
    /\ \A f \in F :
          \E k \in DOMAIN arguments :
              k % 2 = 0 /\ arguments[k] = dir \o <<"/">> \o f \o <<"=">> \o f

\* C12 as claimed: with an asset directory configured, vita-pack-vpk gets one
\* --add <absolute path>=<path relative to the asset root> for every regular
\* file under the asset root and nothing for directories; without one it gets
\* no --add.
C12_AddPerRegularFileAbsolute ==
    add_args # None =>
        IF ScopedMeta.assets = None THEN Unwrap(add_args) = <<>>
        ELSE C12_OnePairEach(Unwrap(add_args),
                             C12_Absolute(Unwrap(ScopedMeta.assets)),
                             C12_RegularFiles(asset_tree))

\* C12 amended: with an asset directory configured, vita-pack-vpk gets one
\* --add <asset directory as configured>/<f>=<f> for every regular file f
\* that the walk from the asset directory reaches, and nothing for
\* directories, symbolic links, or what lies in a directory that cannot be
\* listed; a root holding a/b.png and c.png gives the two entries for
\* a/b.png and c.png.  Without an asset directory it gets no --add.
C12_AddPerReadableFile ==
    add_args # None =>
        IF ScopedMeta.assets = None THEN Unwrap(add_args) = <<>>
        ELSE /\ C12_OnePairEach(Unwrap(add_args),
                                Unwrap(ScopedMeta.assets),
                                C12_ReadableFiles(asset_tree))
             /\ (asset_tree = DefaultTree
                    /\ ScopedMeta.assets = Some(<<"/", "proj", "/", "static">>))
                   => Unwrap(add_args) =
                        << <<"--add">>,
                           <<"/", "proj", "/", "static", "/", "a", "/", "b", ".", "png",
                             "=", "a", "/", "b", ".", "png">>,
                           <<"--add">>,
                           <<"/", "proj", "/", "static", "/", "c", ".", "png",
                             "=", "c", ".", "png">> >>

\* C12 witness: the arguments were built for an absolute asset directory
\* holding the regular files a/b.png and c.png.
C12_Witness ==
    /\ add_args # None
    /\ asset_tree = DefaultTree
    /\ ScopedMeta.assets = Some(<<"/", "proj", "/", "static">>)
    /\ Len(Unwrap(add_args)) = 4

\* C11: the parser's view and the console's view of cargo's standard output
\* are always prefixes of what cargo writes (the bytes in their order, none
\* twice, none skipped); below verbosity 2 the console's view stays empty; at
\* verbosity 2 and above the console has, while the run has not aborted,
\* exactly the bytes the parser has; and once the stream has been read to its
\* end the parser has every byte cargo wrote.
C11_DuplicatingReader ==
    /\ IsPrefix(parser_view, source)
    /\ IsPrefix(console, source)
    /\ verbose < 2 => console = <<>>
    /\ (verbose >= 2 /\ pc # "panicked") => console = parser_view
    /\ pc \in {"stages", "wait", "done"} => parser_view = source

\* C11 witness: at verbosity 2 a stream of the greatest length has been read
\* to its end, and parser and console have all of it.
C11_Witness ==
    /\ verbose = 2
    /\ pc = "stages"
    /\ Len(source) = MaxBytes
    /\ parser_view = source
    /\ console = source

\* C13: at most one child process is running at any time; a child is spawned
\* only when no other is running, that is after cargo's stream has ended and
\* after the status() of the stage tool before has returned; and between two
\* stage calls, and when execute returns, no child is running.
C13_StrictlySequential ==
    /\ [](Cardinality(running) <= 1)
    /\ [](pc \in {"stages", "done"} => running = {})
    /\ [][ ~(running' \subseteq running) =>
              /\ running = {}
              /\ pc \in {"spawn", "stages"}
              /\ pc' \in {"read", "wait"} ]_vars

\* C13 witness: the second stage tool of a run is running, cargo and the first
\* stage tool having exited.
C13_Witness ==
    /\ pc = "wait"
    /\ running = {3}
    /\ spawned = 3

\* C14 as claimed: the driver never waits forever: unless execute has returned
\* or the run has aborted, the driver or its child can take a step.
C14_NeverWaitsForever ==
    pc \in {"done", "panicked"} \/ ENABLED NextIO

====
